---------------------------- MODULE Spec2Model ----------------------------
(***************************************************************************)
(* upmon: monitor UPower devices over DBus and write one line per change.  *)
(*                                                                         *)
(* Text is modelled as a sequence of tokens (TLA+ strings): the empty      *)
(* string is <<>>, concatenation is \o.  Digits, ":" and "." are tokens of *)
(* one character, so that the formatting code is modelled by what it       *)
(* does.  A comma-delimited target list is a sequence of tokens in which   *)
(* "," is the delimiter token.                                             *)
(*                                                                         *)
(* A dynamically typed bus value (zvariant::Value) is a record             *)
(* [t |-> type name, v |-> payload, hi |-> high part]; a Property is       *)
(* [variant, val, hi].  The numbers of the model checker have 32 bits, so  *)
(* a u64 payload is the number hi * 2^31 + v with v and hi in 0..2^31-1,   *)
(* which covers the values below 2^62.  Every other payload has hi = 0:    *)
(* an i64 payload is within 32 bits, an f64 payload is modelled by its     *)
(* number of hundredths, a bool payload by 0 (false) and 1 (true).         *)
(***************************************************************************)
EXTENDS Integers, Sequences, FiniteSets, TLC

VARIABLES
    args,       \* cli.path: the flat PATH PROPERTIES arguments
    fmt,        \* cli.separator, cli.delimiter, cli.timestamp
    mainpc,     \* position of main()
    confs,      \* the DeviceConfigs listen_all runs on
    lst,        \* per listener: NotStarted, Subscribing, Listening, Terminated
    pc,         \* per listener: position inside the loop of listen()
    hist,       \* per listener: the notifications its stream has delivered
    cur,        \* per listener: the record being written and what is left of it
    calls,      \* per listener: indexes of the notifications it called write for
    lock,       \* LineWriter.out: holder of the Mutex, 0 when free
    sink,       \* what the Write behind the Mutex has received, in order
    result,     \* per listener: the value its listen() future resolved to
    seen,       \* per listener: how many notifications each listener had
                \* received when a stream error ended this one (history)
    rejected,   \* per listener: how many of its writes the sink rejected
    stderr,     \* diagnostics printed by main
    exitcode,   \* "running", or the status the process ended with
    fop,        \* the function applied last (function specification)
    fin,        \* its input
    fout        \* its output

vars == <<args, fmt, mainpc, confs, lst, pc, hist, cur, calls, lock, sink,
          result, seen, rejected, stderr, exitcode, fop, fin, fout>>

mainVars == <<args, fmt, mainpc, confs, lst, pc, hist, cur, calls, lock, sink,
              result, seen, rejected, stderr, exitcode>>

fnVars == <<fop, fin, fout>>

-----------------------------------------------------------------------------
(* Bounds of the model *)

\* notifications delivered by the bus over all streams
MaxNotifs == 3

\* length, in tokens, of a target string given to DeviceConfig::new
MaxTargetLen == 3

\* the longest argument list handed to from_varargs on its own
MaxArgs == 4

\* the most devices a command line of ArgOptions names
MaxDevices == 2

\* the largest State code rendered on its own
MaxState == 8

\* secs_to_hhmmss is applied to every count from -3 to MaxSecs
MaxSecs == 200

-----------------------------------------------------------------------------
(* Text helpers: what format!/to_string produce *)

DigitChars == <<"0", "1", "2", "3", "4", "5", "6", "7", "8", "9">>

Digit(d) == DigitChars[d + 1]

RECURSIVE Decimal(_)
Decimal(n) ==
    IF n < 10 THEN <<Digit(n)>> ELSE Decimal(n \div 10) \o <<Digit(n % 10)>>

\* {n:02}
Pad2(n) == IF n < 10 THEN <<"0">> \o Decimal(n) ELSE Decimal(n)

\* {n:03}, {n:04}
Pad3(n) == IF n < 100 THEN <<"0">> \o Pad2(n) ELSE Decimal(n)

Pad4(n) == IF n < 1000 THEN <<"0">> \o Pad3(n) ELSE Decimal(n)

RECURSIVE Join(_, _)
Join(strs, d) ==
    IF strs = <<>> THEN <<>>
    ELSE IF Len(strs) = 1 THEN strs[1]
    ELSE strs[1] \o d \o Join(Tail(strs), d)

Range(f) == {f[x] : x \in DOMAIN f}

\* HashMap::new()
EmptyMap == [n \in {} |-> 0]

-----------------------------------------------------------------------------
(* upower.rs: secs_to_hhmmss *)

\* mutant: the minutes and seconds are taken from the whole count, the hours
\* are not removed first
secs_to_hhmmss_unreduced(s0) ==
    IF s0 <= 0 THEN <<"0", "0", ":", "0", "0", ":", "0", "0">>
    ELSE Pad2(s0 \div 3600) \o <<":">> \o Pad2(s0 \div 60) \o <<":">> \o Pad2(s0 % 60)

\* secs_to_hhmmss: `s %= h * 3600` and `s %= m * 60` are skipped when h, m are 0
secs_to_hhmmss(s0) ==
    IF s0 <= 0 THEN <<"0", "0", ":", "0", "0", ":", "0", "0">>
    ELSE LET h  == s0 \div 3600
             s1 == IF h > 0 THEN s0 % (h * 3600) ELSE s0
             m  == s1 \div 60
             s2 == IF m > 0 THEN s1 % (m * 60) ELSE s1
         IN  Pad2(h) \o <<":">> \o Pad2(m) \o <<":">> \o Pad2(s2)

-----------------------------------------------------------------------------
(* upower.rs: Property *)

\* Property::VARIANTS (strum::VariantNames), in declaration order
VARIANTS == <<"UpdateTime", "Online", "TimeToEmpty", "TimeToFull",
              "Percentage", "IsPresent", "State">>

VariantNames == Range(VARIANTS)

\* Property::from_key_value: Ok(variant) for the seven (name, type) pairs,
\* Err(()) for everything else; the error type is the unit type, whose one
\* value is written "()"
from_key_value(k, v) ==
    IF \/ k = "UpdateTime" /\ v.t = "U64"
       \/ k = "Online" /\ v.t = "Bool"
       \/ k = "TimeToEmpty" /\ v.t = "I64"
       \/ k = "TimeToFull" /\ v.t = "I64"
       \/ k = "Percentage" /\ v.t = "F64"
       \/ k = "IsPresent" /\ v.t = "Bool"
       \/ k = "State" /\ v.t = "U32"
    THEN [ok |-> TRUE, p |-> [variant |-> k, val |-> v.v, hi |-> v.hi]]
    ELSE [ok |-> FALSE, err |-> "()"]

\* chrono: the civil date of a day number counted from 1970-01-01
CivilFromDays(days) ==
    LET z   == days + 719468
        era == z \div 146097
        doe == z - era * 146097
        yoe == (doe - doe \div 1460 + doe \div 36524 - doe \div 146096) \div 365
        doy == doe - (365 * yoe + yoe \div 4 - yoe \div 100)
        mp  == (5 * doy + 2) \div 153
        d   == doy - (153 * mp + 2) \div 5 + 1
        m   == IF mp < 10 THEN mp + 3 ELSE mp - 9
        y   == yoe + era * 400 + (IF m <= 2 THEN 1 ELSE 0)
    IN  [y |-> y, m |-> m, d |-> d]

\* chrono: to_rfc3339_opts(SecondsFormat::Secs, true) without the final "Z",
\* for second rem of day number days, at or after the epoch; a year past
\* 9999 is written with its sign
Rfc3339At(days, rem) ==
    LET c == CivilFromDays(days)
    IN  (IF c.y <= 9999 THEN Pad4(c.y) ELSE <<"+">> \o Decimal(c.y))
        \o <<"-">> \o Pad2(c.m) \o <<"-">> \o Pad2(c.d) \o <<"T">>
        \o Pad2(rem \div 3600) \o <<":">> \o Pad2((rem % 3600) \div 60)
        \o <<":">> \o Pad2(rem % 60)

\* the same for a number of seconds below 2^31
Rfc3339Secs(secs) == Rfc3339At(secs \div 86400, secs % 86400)

\* chrono: the last year of a NaiveDate
MAX_YEAR == 262142

\* chrono: NaiveDateTime::from_timestamp_opt(hi * 2^31 + lo, 0), where
\* 2^31 = 24855 * 86400 + 11648.  The day number must be that of a NaiveDate:
\* 3900 * 2^31 seconds are already past MAX_YEAR, and below that the year of
\* the day decides.
from_timestamp_opt(hi, lo) ==
    IF hi >= 3900 THEN [some |-> FALSE]
    ELSE LET part == (hi * 11648) + (lo % 86400)
             days == (hi * 24855) + (lo \div 86400) + (part \div 86400)
         IN  IF CivilFromDays(days).y > MAX_YEAR THEN [some |-> FALSE]
             ELSE [some |-> TRUE, days |-> days, rem |-> part % 86400]

\* f64::to_string of a value given in hundredths
F64ToString(v) ==
    LET ip == v \div 100
        fr == v % 100
    IN  Decimal(ip) \o
        (IF fr = 0 THEN <<>>
         ELSE IF fr % 10 = 0 THEN <<".", Digit(fr \div 10)>>
         ELSE <<".", Digit(fr \div 10), Digit(fr % 10)>>)

\* bool::to_string
BoolToString(b) == IF b = 1 THEN <<"true">> ELSE <<"false">>

StateNames == <<"Unknown", "Charging", "Discharging", "Empty", "FullyCharged",
                "PendingCharge", "PendingDischarge">>

\* impl Display for Property: the text, or a panic.  An UpdateTime of the
\* model is below 2^62, where `t as i64` is t; expect() panics on None.
Display(p) ==
    CASE p.variant = "UpdateTime" ->
            LET dt == from_timestamp_opt(p.hi, p.val)
            IN  IF dt.some
                THEN [panic |-> FALSE, s |-> Rfc3339At(dt.days, dt.rem) \o <<"Z">>]
                ELSE [panic |-> TRUE, s |-> <<>>]
      [] p.variant = "State" ->
            IF p.val \in 0..6
            THEN [panic |-> FALSE, s |-> <<StateNames[p.val + 1]>>]
            ELSE [panic |-> TRUE, s |-> <<>>]
      [] p.variant \in {"TimeToEmpty", "TimeToFull"} ->
            [panic |-> FALSE, s |-> secs_to_hhmmss(p.val)]
      [] p.variant \in {"Online", "IsPresent"} ->
            [panic |-> FALSE, s |-> BoolToString(p.val)]
      [] p.variant = "Percentage" ->
            [panic |-> FALSE, s |-> F64ToString(p.val)]

-----------------------------------------------------------------------------
(* upower.rs: DeviceConfig *)

\* str::split(","): the pieces between the delimiter tokens; the empty
\* string gives one empty piece
RECURSIVE SplitComma(_)
SplitComma(s) ==
    IF \A i \in 1..Len(s) : s[i] # ","
    THEN <<s>>
    ELSE LET i == CHOOSE j \in 1..Len(s) :
                      s[j] = "," /\ \A k \in 1..(j - 1) : s[k] # ","
         IN  <<SubSeq(s, 1, i - 1)>> \o SplitComma(SubSeq(s, i + 1, Len(s)))

\* Property::VARIANTS.contains(&s) for a piece of a target string: tokens are
\* atomic, so a piece is a variant name only when it is that single token
IsVariant(piece) == Len(piece) = 1 /\ piece[1] \in VariantNames

\* mutant: tokens that are no variant names are dropped instead of rejected
DeviceConfig_new_filtering(path, targets) ==
    LET good == SelectSeq(SplitComma(targets), IsVariant)
    IN  [ok |-> TRUE,
         conf |-> [path |-> path,
                   targets |-> [i \in 1..Len(good) |-> good[i][1]]]]

\* DeviceConfig::new
DeviceConfig_new(path, targets) ==
    IF targets = <<>>
    THEN [ok |-> FALSE,
          err |-> <<"Must specify one or more target properties to monitor.">>]
    ELSE LET pieces == SplitComma(targets)
             bad    == {i \in 1..Len(pieces) : ~IsVariant(pieces[i])}
         IN  IF bad # {}
             THEN LET i == CHOOSE j \in bad : \A k \in bad : j <= k
                  IN  [ok |-> FALSE,
                       err |-> <<"Unexpected target property: ">> \o pieces[i]]
             ELSE [ok |-> TRUE,
                   conf |-> [path |-> path,
                             targets |-> [i \in 1..Len(pieces) |-> pieces[i][1]]]]

\* the loop of DeviceConfig::from_varargs over args.chunks(2), from pair i
RECURSIVE from_varargs_loop(_, _, _)
from_varargs_loop(a, i, v) ==
    IF 2 * i > Len(a) THEN [ok |-> TRUE, confs |-> v]
    ELSE LET r == DeviceConfig_new(a[2 * i - 1], a[2 * i])
         IN  IF r.ok THEN from_varargs_loop(a, i + 1, Append(v, r.conf))
             ELSE [ok |-> FALSE, err |-> r.err]

\* mutant: a pair that is no valid config is skipped, as is an odd last argument
RECURSIVE from_varargs_skipping_loop(_, _, _)
from_varargs_skipping_loop(a, i, v) ==
    IF 2 * i > Len(a) THEN [ok |-> TRUE, confs |-> v]
    ELSE LET r == DeviceConfig_new(a[2 * i - 1], a[2 * i])
         IN  from_varargs_skipping_loop(a, i + 1,
                 IF r.ok THEN Append(v, r.conf) ELSE v)

from_varargs_skipping(a) == from_varargs_skipping_loop(a, 1, <<>>)

\* mutant: the argument count is not checked, an odd last argument is ignored
from_varargs_unchecked(a) == from_varargs_loop(a, 1, <<>>)

\* DeviceConfig::from_varargs
from_varargs(a) ==
    IF Len(a) % 2 # 0
    THEN [ok |-> FALSE,
          err |-> <<"Invalid aggregate number of path arguments: ">>
                  \o Decimal(Len(a))]
    ELSE from_varargs_loop(a, 1, <<>>)

\* the loop of DeviceConfig::collect_changes over self.targets, from target i:
\* a target is inserted when the notification has it and it converts
RECURSIVE collect_loop(_, _, _, _)
collect_loop(targets, properties, i, changes) ==
    IF i > Len(targets) THEN changes
    ELSE LET k == targets[i]
         IN  IF k \in DOMAIN properties /\ from_key_value(k, properties[k]).ok
             THEN collect_loop(targets, properties, i + 1,
                      [n \in (DOMAIN changes) \cup {k} |->
                          IF n = k THEN from_key_value(k, properties[k]).p
                          ELSE changes[n]])
             ELSE collect_loop(targets, properties, i + 1, changes)

\* mutant: every changed property that converts is collected, requested or not
collect_changes_all(conf, properties) ==
    [k \in {n \in DOMAIN properties : from_key_value(n, properties[n]).ok} |->
        from_key_value(k, properties[k]).p]

\* DeviceConfig::collect_changes; the HashMap is a function from names
collect_changes(conf, properties) ==
    collect_loop(conf.targets, properties, 1, EmptyMap)

-----------------------------------------------------------------------------
(* The inputs of a run *)

PathA == <<"/dev/A">>

PathB == <<"/dev/B">>

\* not a DBus object path: MatchRule's builder rejects it
PathBad == <<"devC">>

\* zbus ObjectPath validation, on the paths of the model
ValidObjectPath(p) == p[1] \in {"/dev/A", "/dev/B"}

\* the command lines tried: good ones, and one for each configuration error
ArgOptions ==
    { <<PathA, <<"TimeToFull", ",", "State">>, PathB, <<"Online", ",", "Percentage">>>>,
      <<PathA, <<"TimeToFull">>, PathB>>,
      <<PathA, <<"TimeToFull">>, PathB, <<"Online", ",", "BadTarget">>>>,
      <<PathA, <<"State">>, PathB, <<>>>>,
      <<PathBad, <<"Online">>, PathB, <<"State">>>> }

\* --separator, --delimiter, --timestamp: the defaults, and the test's values
FmtOptions ==
    { [separator |-> <<"=">>, delimiter |-> <<" ">>, timestamp |-> FALSE],
      [separator |-> <<"xx">>, delimiter |-> <<"yy">>, timestamp |-> TRUE] }

\* changed_properties of the notifications the bus delivers
Notifs ==
    { [n \in {"TimeToFull", "Online", "IsPresent", "State"} |->
          IF n = "TimeToFull" THEN [t |-> "I64", v |-> 54321, hi |-> 0]
          ELSE IF n = "Online" THEN [t |-> "U32", v |-> 1, hi |-> 0]
          ELSE [t |-> "Bool", v |-> 0, hi |-> 0]],
      [n \in {"TimeToFull", "State"} |->
          IF n = "State" THEN [t |-> "U32", v |-> 2, hi |-> 0] ELSE [t |-> "I64", v |-> -5, hi |-> 0]],
      [n \in {"State"} |-> [t |-> "U32", v |-> 9, hi |-> 0]],
      [n \in {"Online", "Percentage", "UpdateTime"} |->
          IF n = "Online" THEN [t |-> "Bool", v |-> 1, hi |-> 0]
          ELSE IF n = "Percentage" THEN [t |-> "F64", v |-> 5422, hi |-> 0]
          ELSE [t |-> "U64", v |-> 1707671976, hi |-> 0]] }

\* Utc::now(), in milliseconds after the epoch
NowOptions == {61123}

-----------------------------------------------------------------------------
(* output.rs: LineWriter *)

\* the orders in which a HashMap with these keys may be iterated
IterOrders(m) ==
    {o \in [1..Cardinality(DOMAIN m) -> DOMAIN m] :
        \A i, j \in DOMAIN o : i # j => o[i] # o[j]}

\* format!("{k}{}{v}", self.separator) for each entry, joined by the delimiter
PropString(changes, order, f) ==
    Join([i \in DOMAIN order |->
              <<order[i]>> \o f.separator \o Display(changes[order[i]]).s],
         f.delimiter)

\* Utc::now().to_rfc3339_opts(SecondsFormat::Millis, true) and the pushed ' '
TimestampString(f, now) ==
    IF f.timestamp
    THEN Rfc3339Secs(now \div 1000) \o <<".">> \o Pad3(now % 1000) \o <<"Z", " ">>
    ELSE <<>>

\* mutant: the space after the device path is left out of the format string
LinePieces_nospace(path, changes, order, f, now) ==
    SelectSeq(<<TimestampString(f, now), path,
                PropString(changes, order, f), <<"\n">>>>,
              LAMBDA piece : piece # <<>>)

\* write!(out, "{t_str}{device_path} {prop_string}\n"): the pieces write_fmt
\* hands to the sink one after the other (an empty piece writes nothing)
LinePieces(path, changes, order, f, now) ==
    SelectSeq(<<TimestampString(f, now), path, <<" ">>,
                PropString(changes, order, f), <<"\n">>>>,
              LAMBDA piece : piece # <<>>)

\* whether rendering some entry of the record panics
RenderPanics(changes) == \E k \in DOMAIN changes : Display(changes[k]).panic

-----------------------------------------------------------------------------
(* main.rs and the listeners *)

Listeners == DOMAIN lst

Delivered == LET RECURSIVE Sum(_)
                 Sum(i) == IF i = 0 THEN 0 ELSE Len(hist[i]) + Sum(i - 1)
             IN  Sum(Len(hist))

Running == exitcode = "running"

\* how many notifications each listener has received
Received == [j \in DOMAIN hist |-> Len(hist[j])]

\* mutant: the write is not awaited before the next notification is taken
AwaitingNext_unawaited(i) == pc[i] \in {"recv", "lock"}

\* listen, line 170: the next notification is asked for only at the top of
\* the loop, after the write of the previous one was awaited
AwaitingNext(i) == pc[i] = "recv"

\* mutant: write is called for every notification
ShouldWrite_always(changes) == TRUE

\* listen, line 174: if !changes.is_empty()
ShouldWrite(changes) == DOMAIN changes # {}

Init ==
    /\ args \in ArgOptions
    /\ fmt \in FmtOptions
    /\ mainpc = "parse"
    /\ confs = <<>>
    /\ lst = <<>>
    /\ pc = <<>>
    /\ hist = <<>>
    /\ cur = <<>>
    /\ calls = <<>>
    /\ lock = 0
    /\ sink = <<>>
    /\ result = <<>>
    /\ seen = <<>>
    /\ rejected = <<>>
    /\ stderr = <<>>
    /\ exitcode = "running"
    /\ fop = "none"
    /\ fin = <<>>
    /\ fout = <<>>

\* main, lines 52-56: the first from_varargs; an error is printed and ends
\* the process (the run has neither --list-properties nor --rules)
MainParse ==
    /\ Running /\ mainpc = "parse"
    /\ LET r == from_varargs(args)
       IN  IF r.ok
           THEN /\ mainpc' = "writer"
                /\ UNCHANGED <<stderr, exitcode>>
           ELSE /\ stderr' = Append(stderr,
                        <<"Error when reading device configuration: ">> \o r.err)
                /\ exitcode' = "1"
                /\ mainpc' = "exit"
    /\ UNCHANGED <<args, fmt, confs, lst, pc, hist, cur, calls, lock, sink, result,
                   seen, rejected>>
    /\ UNCHANGED fnVars

\* main, lines 68-76: LineWriter::new opens the sink, or fails
MainWriter ==
    /\ Running /\ mainpc = "writer"
    /\ \E ok \in BOOLEAN :
          IF ok
          THEN /\ mainpc' = "connect"
               /\ UNCHANGED <<stderr, exitcode>>
          ELSE /\ stderr' = Append(stderr, <<"Error creating writer: ", "io">>)
               /\ exitcode' = "1"
               /\ mainpc' = "exit"
    /\ UNCHANGED <<args, fmt, confs, lst, pc, hist, cur, calls, lock, sink, result,
                   seen, rejected>>
    /\ UNCHANGED fnVars

\* main, lines 78-81: Connection::system(), or its failure
MainConnect ==
    /\ Running /\ mainpc = "connect"
    /\ \E ok \in BOOLEAN :
          IF ok
          THEN /\ mainpc' = "listen"
               /\ UNCHANGED <<stderr, exitcode>>
          ELSE /\ stderr' = Append(stderr,
                       <<"Error when reading path configuration: ", "bus">>)
               /\ exitcode' = "1"
               /\ mainpc' = "exit"
    /\ UNCHANGED <<args, fmt, confs, lst, pc, hist, cur, calls, lock, sink, result,
                   seen, rejected>>
    /\ UNCHANGED fnVars

\* what the first poll of listen() does for a config: self.rule()? fails on a
\* path the bus syntax rejects, else the future awaits for_match_rule
FirstPoll(conf) ==
    IF ValidObjectPath(conf.path) THEN "Subscribing" ELSE "Terminated"

\* listen_all, lines 184-188: one future per config, all polled by join_all
listen_all(cs) ==
    /\ confs' = cs
    /\ lst' = [i \in 1..Len(cs) |-> FirstPoll(cs[i])]
    /\ result' = [i \in 1..Len(cs) |->
                     IF FirstPoll(cs[i]) = "Terminated" THEN "InvalidPath" ELSE "None"]
    /\ pc' = [i \in 1..Len(cs) |-> "recv"]
    /\ hist' = [i \in 1..Len(cs) |-> <<>>]
    /\ calls' = [i \in 1..Len(cs) |-> <<>>]
    /\ cur' = [i \in 1..Len(cs) |-> [seq |-> 0, changes |-> EmptyMap, todo |-> <<>>]]
    /\ seen' = [i \in 1..Len(cs) |-> [j \in 1..Len(cs) |-> 0]]
    /\ rejected' = [i \in 1..Len(cs) |-> 0]

\* main, lines 83-89: the second from_varargs, then listen_all
MainListen ==
    /\ Running /\ mainpc = "listen"
    /\ LET r == from_varargs(args)
       IN  IF r.ok
           THEN /\ listen_all(r.confs)
                /\ mainpc' = "join"
                /\ UNCHANGED <<stderr, exitcode>>
           ELSE /\ stderr' = Append(stderr,
                        <<"Error when reading path configuration: ">> \o r.err)
                /\ exitcode' = "1"
                /\ mainpc' = "exit"
                /\ UNCHANGED <<confs, lst, pc, hist, cur, calls, result, seen, rejected>>
    /\ UNCHANGED <<args, fmt, lock, sink>>
    /\ UNCHANGED fnVars

\* listen, lines 164-168: for_match_rule(...).await? opens the stream or fails
Subscribe(i) ==
    /\ Running /\ mainpc = "join"
    /\ lst[i] = "Subscribing"
    /\ \E ok \in BOOLEAN :
          IF ok
          THEN /\ lst' = [lst EXCEPT ![i] = "Listening"]
               /\ UNCHANGED result
          ELSE /\ lst' = [lst EXCEPT ![i] = "Terminated"]
               /\ result' = [result EXCEPT ![i] = "SubscribeError"]
    /\ UNCHANGED <<args, fmt, mainpc, confs, pc, hist, cur, calls, lock, sink,
                   seen, rejected, stderr, exitcode>>
    /\ UNCHANGED fnVars

\* mutant: a requested property that does not convert is an error that ends
\* the listener (from_key_value(..)? in collect_changes)
Receive_strict(i) ==
    /\ Running /\ mainpc = "join"
    /\ lst[i] = "Listening" /\ AwaitingNext(i)
    /\ Delivered < MaxNotifs
    /\ \E n \in Notifs :
          LET changes == collect_changes(confs[i], n)
              strict  == \E k \in Range(confs[i].targets) \cap DOMAIN n :
                             ~from_key_value(k, n[k]).ok
          IN  /\ hist' = [hist EXCEPT ![i] = Append(@, n)]
              /\ cur' = [cur EXCEPT ![i] = [seq |-> Len(hist[i]) + 1,
                                            changes |-> changes,
                                            todo |-> <<>>]]
              /\ IF strict
                 THEN /\ result' = [result EXCEPT ![i] = "TypeMismatch"]
                      /\ lst' = [lst EXCEPT ![i] = "Terminated"]
                      /\ UNCHANGED <<calls, pc>>
                 ELSE /\ UNCHANGED <<result, lst>>
                      /\ IF ShouldWrite(changes)
                         THEN /\ calls' = [calls EXCEPT ![i] =
                                              Append(@, Len(hist[i]) + 1)]
                              /\ pc' = [pc EXCEPT ![i] = "lock"]
                         ELSE UNCHANGED <<calls, pc>>
    /\ UNCHANGED <<args, fmt, mainpc, confs, lock, sink, seen,
                   rejected, stderr, exitcode>>
    /\ UNCHANGED fnVars

\* listen, lines 170-176: the stream yields a notification; its changes are
\* collected and, when there are any, write is called (and awaits the lock)
Receive(i) ==
    /\ Running /\ mainpc = "join"
    /\ lst[i] = "Listening" /\ AwaitingNext(i)
    /\ Delivered < MaxNotifs
    /\ \E n \in Notifs :
          LET changes == collect_changes(confs[i], n)
          IN  /\ hist' = [hist EXCEPT ![i] = Append(@, n)]
              /\ cur' = [cur EXCEPT ![i] = [seq |-> Len(hist[i]) + 1,
                                            changes |-> changes,
                                            todo |-> <<>>]]
              /\ IF ShouldWrite(changes)
                 THEN /\ calls' = [calls EXCEPT ![i] = Append(@, Len(hist[i]) + 1)]
                      /\ pc' = [pc EXCEPT ![i] = "lock"]
                 ELSE UNCHANGED <<calls, pc>>
    /\ UNCHANGED <<args, fmt, mainpc, confs, lst, lock, sink, result, seen,
                   rejected, stderr, exitcode>>
    /\ UNCHANGED fnVars

\* mutant: the first error of a listener cancels the others (try_join_all)
StreamError_cancelling(i) ==
    /\ Running /\ mainpc = "join"
    /\ lst[i] = "Listening" /\ AwaitingNext(i)
    /\ result' = [result EXCEPT ![i] = "StreamError"]
    /\ lst' = [j \in DOMAIN lst |-> "Terminated"]
    /\ seen' = [seen EXCEPT ![i] = Received]
    /\ UNCHANGED <<args, fmt, mainpc, confs, pc, hist, cur, calls, lock, sink,
                   rejected, stderr, exitcode>>
    /\ UNCHANGED fnVars

\* listen, lines 170 and 172: try_next() yields Err (a malformed message, a
\* lost connection) or args() cannot decode the body; `?` returns the
\* zbus error.  (from_message is Some for every message of the match rule.)
StreamError(i) ==
    /\ Running /\ mainpc = "join"
    /\ lst[i] = "Listening" /\ AwaitingNext(i)
    /\ result' = [result EXCEPT ![i] = "StreamError"]
    /\ lst' = [lst EXCEPT ![i] = "Terminated"]
    /\ seen' = [seen EXCEPT ![i] = Received]
    /\ UNCHANGED <<args, fmt, mainpc, confs, pc, hist, cur, calls, lock, sink,
                   rejected, stderr, exitcode>>
    /\ UNCHANGED fnVars

\* listen, line 170: try_next() yields Ok(None) at the end of the stream and
\* unwrap() panics; the panic unwinds main, the only task
StreamEnd(i) ==
    /\ Running /\ mainpc = "join"
    /\ lst[i] = "Listening" /\ AwaitingNext(i)
    /\ exitcode' = "101"
    /\ UNCHANGED <<args, fmt, mainpc, confs, lst, pc, hist, cur, calls, lock, sink,
                   result, seen, rejected, stderr>>
    /\ UNCHANGED fnVars

\* mutant: the sink is written without taking the lock
LockFree_unguarded == TRUE

\* self.out.lock().await resolves only while no guard is alive
LockFree == lock = 0

\* write, lines 52-63: the lock is taken, then the line is formatted; the
\* iteration order of the HashMap and the clock are not determined
AcquireLock(i) ==
    /\ Running /\ mainpc = "join"
    /\ lst[i] = "Listening" /\ pc[i] = "lock"
    /\ LockFree
    /\ IF RenderPanics(cur[i].changes)
       THEN /\ exitcode' = "101"
            /\ lock' = i
            /\ UNCHANGED <<pc, cur>>
       ELSE /\ \E order \in IterOrders(cur[i].changes), now \in NowOptions :
                  cur' = [cur EXCEPT ![i].todo =
                             LinePieces(confs[i].path, cur[i].changes, order, fmt,
                                        IF fmt.timestamp THEN now ELSE 0)]
            /\ lock' = i
            /\ pc' = [pc EXCEPT ![i] = "writing"]
            /\ UNCHANGED exitcode
    /\ UNCHANGED <<args, fmt, mainpc, confs, lst, hist, calls, sink, result, seen,
                   rejected, stderr>>
    /\ UNCHANGED fnVars

\* mutant: a rejected piece is written again
WritePiece_retrying(i) ==
    /\ Running /\ mainpc = "join"
    /\ lst[i] = "Listening" /\ pc[i] = "writing"
    /\ \E ok \in BOOLEAN :
          IF ok
          THEN /\ sink' = Append(sink, [who |-> i, seq |-> cur[i].seq,
                                        text |-> Head(cur[i].todo)])
               /\ cur' = [cur EXCEPT ![i].todo = Tail(@)]
               /\ IF Len(cur[i].todo) = 1
                  THEN /\ lock' = 0
                       /\ pc' = [pc EXCEPT ![i] = "recv"]
                  ELSE UNCHANGED <<lock, pc>>
               /\ UNCHANGED rejected
          ELSE /\ rejected' = [rejected EXCEPT ![i] = @ + 1]
               /\ UNCHANGED <<sink, cur, lock, pc>>
    /\ UNCHANGED <<args, fmt, mainpc, confs, lst, result, seen, hist, calls,
                   stderr, exitcode>>
    /\ UNCHANGED fnVars

\* mutant: the guard is not dropped when the write fails
WritePiece_leaking(i) ==
    /\ Running /\ mainpc = "join"
    /\ lst[i] = "Listening" /\ pc[i] = "writing"
    /\ \E ok \in BOOLEAN :
          IF ok
          THEN /\ sink' = Append(sink, [who |-> i, seq |-> cur[i].seq,
                                        text |-> Head(cur[i].todo)])
               /\ cur' = [cur EXCEPT ![i].todo = Tail(@)]
               /\ IF Len(cur[i].todo) = 1
                  THEN /\ lock' = 0
                       /\ pc' = [pc EXCEPT ![i] = "recv"]
                  ELSE UNCHANGED <<lock, pc>>
               /\ UNCHANGED <<lst, result, seen, rejected>>
          ELSE /\ rejected' = [rejected EXCEPT ![i] = @ + 1]
               /\ lst' = [lst EXCEPT ![i] = "Terminated"]
               /\ result' = [result EXCEPT ![i] = "IoError"]
               /\ UNCHANGED <<sink, cur, pc, seen, lock>>
    /\ UNCHANGED <<args, fmt, mainpc, confs, hist, calls, stderr, exitcode>>
    /\ UNCHANGED fnVars

\* write, lines 64-65: the sink takes the next piece of the line, or rejects
\* it; after the last piece, and on an error, write returns and the guard is
\* dropped.  Other tasks may run between two pieces.
WritePiece(i) ==
    /\ Running /\ mainpc = "join"
    /\ lst[i] = "Listening" /\ pc[i] = "writing"
    /\ \E ok \in BOOLEAN :
          IF ok
          THEN /\ sink' = Append(sink, [who |-> i, seq |-> cur[i].seq,
                                        text |-> Head(cur[i].todo)])
               /\ cur' = [cur EXCEPT ![i].todo = Tail(@)]
               /\ IF Len(cur[i].todo) = 1
                  THEN /\ lock' = 0
                       /\ pc' = [pc EXCEPT ![i] = "recv"]
                  ELSE UNCHANGED <<lock, pc>>
               /\ UNCHANGED <<lst, result, seen, rejected>>
          ELSE /\ rejected' = [rejected EXCEPT ![i] = @ + 1]
               /\ lock' = 0
               /\ lst' = [lst EXCEPT ![i] = "Terminated"]
               /\ result' = [result EXCEPT ![i] = "IoError"]
               /\ UNCHANGED <<sink, cur, pc, seen>>
    /\ UNCHANGED <<args, fmt, mainpc, confs, hist, calls, stderr, exitcode>>
    /\ UNCHANGED fnVars

\* mutant: listen_all returns with the first listener that ends (select)
JoinDone_first ==
    /\ Running /\ mainpc = "join"
    /\ \E i \in Listeners : lst[i] = "Terminated"
    /\ mainpc' = "done"
    /\ exitcode' = "0"
    /\ UNCHANGED <<args, fmt, confs, lst, pc, hist, cur, calls, lock, sink, result,
                   seen, rejected, stderr>>
    /\ UNCHANGED fnVars

\* listen_all, line 188, and main's return: join_all resolves once every
\* future has; its vector of results is dropped
JoinDone ==
    /\ Running /\ mainpc = "join"
    /\ \A i \in Listeners : lst[i] = "Terminated"
    /\ mainpc' = "done"
    /\ exitcode' = "0"
    /\ UNCHANGED <<args, fmt, confs, lst, pc, hist, cur, calls, lock, sink, result,
                   seen, rejected, stderr>>
    /\ UNCHANGED fnVars

Next ==
    \/ MainParse
    \/ MainWriter
    \/ MainConnect
    \/ MainListen
    \/ JoinDone
    \/ \E i \in Listeners : Subscribe(i)
    \/ \E i \in Listeners : Receive(i)
    \/ \E i \in Listeners : StreamError(i)
    \/ \E i \in Listeners : StreamEnd(i)
    \/ \E i \in Listeners : AcquireLock(i)
    \/ \E i \in Listeners : WritePiece(i)

Spec == Init /\ [][Next]_vars

\* the futures join_all can hold: one per device of a command line
Devices == 1..MaxDevices

\* Fair scheduling of the listeners.  join_all polls every future that was
\* woken: a write in progress goes on to its next piece (weak fairness), and
\* a listener waiting for the lock gets it if the lock is free again and
\* again (strong fairness: the mutex wakes its waiters in turn).  Nothing
\* obliges the bus to deliver a notification or the stream to fail.
SpecLive ==
    /\ Init
    /\ [][Next]_vars
    /\ \A i \in Devices :
          /\ SF_vars(i \in Listeners /\ AcquireLock(i))
          /\ WF_vars(i \in Listeners /\ WritePiece(i))

-----------------------------------------------------------------------------
(* The functions on their own: each is applied to one input of a bounded set *)

TargetTokens == {"Online", "State", "BadTarget", ","}

\* the target strings of at most MaxTargetLen tokens
TargetStrings == UNION {[1..n -> TargetTokens] : n \in 0..MaxTargetLen}

\* the inputs of DeviceConfig::new
NewInputs ==
    {[op |-> "new", path |-> p, targets |-> t] :
        p \in {PathA, PathB}, t \in TargetStrings}

\* command-line arguments: paths and target strings, good and bad
ArgStrings ==
    {PathA, PathB, <<"Online">>, <<"Online", ",", "State">>, <<>>, <<"BadTarget">>}

\* the inputs of DeviceConfig::from_varargs: at most MaxArgs arguments
VarargsInputs ==
    {[op |-> "from_varargs", args |-> a] :
        a \in UNION {[1..n -> ArgStrings] : n \in 0..MaxArgs}}

\* the runtime types of the values a notification may carry
ValueTypes == {"U64", "U32", "I64", "F64", "Bool"}

\* property names of a notification: the seven variants and two others
KeyNames == VariantNames \cup {"SomeBadKey", "Energy"}

\* the inputs of Property::from_key_value
KeyValueInputs ==
    {[op |-> "from_key_value", k |-> k, v |-> [t |-> t, v |-> x, hi |-> 0]] :
        k \in KeyNames, t \in ValueTypes, x \in {0, 1, 54321}}
    \cup {[op |-> "from_key_value", k |-> k, v |-> [t |-> "U64", v |-> x, hi |-> 1]] :
            k \in KeyNames, x \in {0, 54321}}

\* Property values of every variant: times of the tests, codes in and out
\* of the State table, update times up to the far future
Properties ==
    {[variant |-> "UpdateTime", val |-> x, hi |-> h] :
        x \in {0, 1707671976, 2147483647},
        h \in {0, 1, 3000, 3850, 4000, 1048576, 2147483647}}
    \cup {[variant |-> "State", val |-> x, hi |-> 0] : x \in 0..MaxState}
    \cup {[variant |-> k, val |-> x, hi |-> 0] :
            k \in {"TimeToEmpty", "TimeToFull"},
            x \in {-5, 0, 59, 3600, 12345, 54321, 2147483647}}
    \cup {[variant |-> k, val |-> x, hi |-> 0] :
            k \in {"Online", "IsPresent"}, x \in {0, 1}}
    \cup {[variant |-> "Percentage", val |-> x, hi |-> 0] :
            x \in {0, 550, 5422, 10000}}

\* the inputs of Property's Display
DisplayInputs == {[op |-> "fmt", p |-> p] : p \in Properties}

\* the inputs of secs_to_hhmmss: the small counts, and counts around a
\* minute, an hour, several hours, a day, a hundred hours, and i32::MAX
SecsInputs ==
    {[op |-> "secs_to_hhmmss", s |-> x] :
        x \in (-3..MaxSecs) \cup
              {3599, 3600, 3601, 3660, 7199, 7200, 7261, 12345, 54321, 86399,
               86400, 359999, 360000, 2147483647}}

InitFn ==
    /\ \/ fin \in NewInputs
       \/ fin \in SecsInputs
       \/ fin \in VarargsInputs
       \/ fin \in KeyValueInputs
       \/ fin \in DisplayInputs
    /\ fop = "none"
    /\ fout = <<>>
    /\ args = <<>>
    /\ fmt = [separator |-> <<"=">>, delimiter |-> <<" ">>, timestamp |-> FALSE]
    /\ mainpc = "fn"
    /\ confs = <<>>
    /\ lst = <<>>
    /\ pc = <<>>
    /\ hist = <<>>
    /\ cur = <<>>
    /\ calls = <<>>
    /\ lock = 0
    /\ sink = <<>>
    /\ result = <<>>
    /\ seen = <<>>
    /\ rejected = <<>>
    /\ stderr = <<>>
    /\ exitcode = "running"

\* DeviceConfig::new(path, targets)
ApplyNew ==
    /\ fop = "none"
    /\ fin.op = "new"
    /\ fop' = "new"
    /\ fout' = DeviceConfig_new(fin.path, fin.targets)
    /\ UNCHANGED fin
    /\ UNCHANGED mainVars

\* DeviceConfig::from_varargs(args)
ApplyFromVarargs ==
    /\ fop = "none"
    /\ fin.op = "from_varargs"
    /\ fop' = "from_varargs"
    /\ fout' = from_varargs(fin.args)
    /\ UNCHANGED fin
    /\ UNCHANGED mainVars

\* Property::from_key_value(k, v)
ApplyFromKeyValue ==
    /\ fop = "none"
    /\ fin.op = "from_key_value"
    /\ fop' = "from_key_value"
    /\ fout' = from_key_value(fin.k, fin.v)
    /\ UNCHANGED fin
    /\ UNCHANGED mainVars

\* <Property as Display>::fmt, as to_string() calls it
ApplyDisplay ==
    /\ fop = "none"
    /\ fin.op = "fmt"
    /\ fop' = "fmt"
    /\ fout' = Display(fin.p)
    /\ UNCHANGED fin
    /\ UNCHANGED mainVars

\* secs_to_hhmmss(s)
ApplySecs ==
    /\ fop = "none"
    /\ fin.op = "secs_to_hhmmss"
    /\ fop' = "secs_to_hhmmss"
    /\ fout' = secs_to_hhmmss(fin.s)
    /\ UNCHANGED fin
    /\ UNCHANGED mainVars

NextFn ==
    \/ ApplySecs
    \/ ApplyNew
    \/ ApplyFromVarargs
    \/ ApplyFromKeyValue
    \/ ApplyDisplay

SpecFn == InitFn /\ [][NextFn]_vars

-----------------------------------------------------------------------------
(* What the properties below read off the state *)

\* the payload type each variant of the enum Property carries
PayloadType(name) ==
    CASE name = "UpdateTime" -> "U64"
      [] name \in {"Online", "IsPresent"} -> "Bool"
      [] name \in {"TimeToEmpty", "TimeToFull"} -> "I64"
      [] name = "Percentage" -> "F64"
      [] name = "State" -> "U32"

\* the requested properties a notification carries
Requested(conf, n) == Range(conf.targets) \cap DOMAIN n

\* those of them whose value has the payload type of the variant
WellTyped(conf, n) == {k \in Requested(conf, n) : n[k].t = PayloadType(k)}

\* the text of the pieces call k of listener i has put into the sink
RECURSIVE Concat(_)
Concat(ss) == IF ss = <<>> THEN <<>> ELSE Head(ss) \o Concat(Tail(ss))

PiecesOf(i, k) == SelectSeq(sink, LAMBDA c : c.who = i /\ c.seq = k)

LineText(i, k) == LET ps == PiecesOf(i, k) IN Concat([x \in DOMAIN ps |-> ps[x].text])

Newline == <<"\n">>

LineComplete(i, k) ==
    \E a \in DOMAIN sink : sink[a].who = i /\ sink[a].seq = k /\ sink[a].text = Newline

NumLines(i) ==
    Cardinality({a \in DOMAIN sink : sink[a].who = i /\ sink[a].text = Newline})

\* some comma-separated token of a target string is no variant name
HasBadToken(s) ==
    \E a \in 1..(Len(s) + 1), b \in 0..Len(s) :
        /\ a <= b + 1
        /\ a = 1 \/ s[a - 1] = ","
        /\ b = Len(s) \/ s[b + 1] = ","
        /\ \A k \in a..b : s[k] # ","
        /\ ~(a = b /\ s[a] \in VariantNames)

\* a configuration error: an odd argument count, an empty target list, an
\* unrecognized property name
ConfigError(a) ==
    \/ Len(a) % 2 = 1
    \/ \E i \in 1..(Len(a) \div 2) : a[2 * i] = <<>> \/ HasBadToken(a[2 * i])

-----------------------------------------------------------------------------
(* C1 *)

\* C1: the pieces of one write call are contiguous in the sink: no piece of
\* another call lies between the first and the last piece of a call's line,
\* however the listeners' write calls interleave.
C1_LinesContiguous ==
    \A a, b \in DOMAIN sink :
        (a < b /\ (sink[b].who # sink[a].who \/ sink[b].seq # sink[a].seq))
            => \A c \in (b + 1)..Len(sink) :
                   sink[c].who # sink[a].who \/ sink[c].seq # sink[a].seq

\* two calls are under way: one has written part of its line, the other waits
C1_Witness ==
    \E i, j \in Listeners :
        /\ i # j /\ Running
        /\ pc[i] = "writing" /\ PiecesOf(i, cur[i].seq) # <<>>
        /\ pc[j] = "lock"
        /\ \E a \in DOMAIN sink : sink[a].who = j

-----------------------------------------------------------------------------
(* C2 *)

MalformedResults == {"StreamError"}

\* the step in which a malformed message ends listener i changes no other
\* listener and does not end the process
C2_Step ==
    \A i \in Listeners :
        (result[i] = "None" /\ result'[i] \in MalformedResults)
            => /\ lst'[i] = "Terminated"
               /\ \A j \in Listeners \ {i} :
                      lst'[j] = lst[j] /\ pc'[j] = pc[j] /\ result'[j] = result[j]
               /\ exitcode' = exitcode

\* every notification with a non-empty record that another listener has
\* received since, and has finished handling, has its line in the sink
C2_Afterwards ==
    \A i, j \in Listeners :
        (i # j /\ result[i] \in MalformedResults /\ lst[j] = "Listening" /\ pc[j] = "recv")
            => \A k \in (seen[i][j] + 1)..Len(hist[j]) :
                   WellTyped(confs[j], hist[j][k]) # {} => LineComplete(j, k)

\* C2: a malformed message on one listener's stream terminates only that
\* listener; every other listener stays as it was, and the notifications it
\* receives afterwards with a non-empty change record still get their line.
C2_MalformedEndsOnlyItself == [][C2_Step]_vars /\ []C2_Afterwards

\* a listener was ended by a malformed message, and another one has since
\* received a notification and written its line
C2_Witness ==
    \E i, j \in Listeners :
        /\ i # j /\ result[i] \in MalformedResults
        /\ lst[j] = "Listening" /\ pc[j] = "recv"
        /\ \E k \in (seen[i][j] + 1)..Len(hist[j]) : LineComplete(j, k)

-----------------------------------------------------------------------------
(* C3 *)

\* C3: the pieces a device has in the sink are in the order its notifications
\* were delivered, and a notification is taken from the stream only when the
\* write for every earlier one has completed.
C3_PerDeviceOrder ==
    \A i \in Listeners :
        /\ LET own == SelectSeq(sink, LAMBDA c : c.who = i)
           IN  \A x \in 1..(Len(own) - 1) : own[x].seq <= own[x + 1].seq
        /\ \A x \in DOMAIN calls[i] :
               calls[i][x] < Len(hist[i]) => LineComplete(i, calls[i][x])
        /\ \A k \in 1..Len(hist[i]) :
               LineComplete(i, k) =>
                   \E order \in IterOrders(collect_changes(confs[i], hist[i][k])) :
                       \A x \in DOMAIN order : order[x] \in Range(LineText(i, k))

\* a device has two lines in the sink, and the other device one between them
C3_Witness ==
    \E i, j \in Listeners, a, b, c \in DOMAIN sink :
        /\ i # j /\ a < b /\ b < c
        /\ sink[a].who = i /\ sink[a].text = Newline
        /\ sink[b].who = j
        /\ sink[c].who = i /\ sink[c].text = Newline

-----------------------------------------------------------------------------
(* C4 *)

\* a diagnostic that names the device path of listener i and its error
Reported(i) ==
    \E d \in DOMAIN stderr :
        confs[i].path[1] \in Range(stderr[d]) /\ result[i] \in Range(stderr[d])

\* C4: when listen_all is over, every listener that terminated with an error
\* has been reported with its device path and its error.
C4_FailuresReported ==
    mainpc = "done" => \A i \in Listeners : result[i] # "None" => Reported(i)

-----------------------------------------------------------------------------
(* C5 *)

\* a listener whose write the sink rejected has terminated with the I/O
\* error, after that one rejection
C5_Inv ==
    \A i \in Listeners :
        rejected[i] > 0 => rejected[i] = 1 /\ lst[i] = "Terminated" /\ result[i] = "IoError"

\* the rejection changes no other listener and does not end the process; a
\* listener that had a write rejected calls write no more and adds nothing
\* to the sink
C5_Step ==
    \A i \in Listeners :
        /\ rejected'[i] > rejected[i] =>
               /\ \A j \in Listeners \ {i} :
                      lst'[j] = lst[j] /\ pc'[j] = pc[j] /\ result'[j] = result[j]
               /\ exitcode' = exitcode
        /\ rejected[i] > 0 =>
               /\ calls'[i] = calls[i]
               /\ SelectSeq(sink', LAMBDA c : c.who = i) = SelectSeq(sink, LAMBDA c : c.who = i)

\* C5: a write the sink rejects returns an I/O error to the calling listener,
\* which terminates with it and does not write the record again; no other
\* listener is affected.
C5_WriteErrorEndsCaller == []C5_Inv /\ [][C5_Step]_vars

\* a write of one listener was rejected while the other is writing a line
C5_Witness ==
    \E i, j \in Listeners :
        /\ i # j /\ rejected[i] = 1 /\ result[i] = "IoError"
        /\ lst[j] = "Listening" /\ pc[j] = "writing" /\ Running

-----------------------------------------------------------------------------
(* C6 *)

\* the listener is between two notifications and no write of its has failed
Settled(i) == lst[i] = "Listening" /\ pc[i] = "recv"

\* C6 as stated: while no write fails, a device has as many lines in the sink
\* as it has processed notifications with at least one requested property.
C6_LinesPerRequested ==
    \A i \in Listeners :
        Settled(i) =>
            NumLines(i) = Cardinality({k \in 1..Len(hist[i]) :
                                          Requested(confs[i], hist[i][k]) # {}})

\* C6 amended: write is called exactly once for every notification whose
\* change record is non-empty (some requested property is carried with the
\* payload type of its variant) and never for another one; while no write
\* fails, a device has as many lines as it has processed such notifications.
C6_LinesPerNonEmptyRecord ==
    \A i \in Listeners :
        LET nonEmpty == {k \in 1..Len(hist[i]) : WellTyped(confs[i], hist[i][k]) # {}}
        IN  /\ Range(calls[i]) = nonEmpty
            /\ Len(calls[i]) = Cardinality(nonEmpty)
            /\ Settled(i) => NumLines(i) = Cardinality(nonEmpty)

\* a listener has processed a notification that gave a line and one whose
\* only requested property had the wrong type, which gave none
C6_Witness ==
    \E i \in Listeners :
        /\ Settled(i) /\ NumLines(i) = 1
        /\ \E k \in 1..Len(hist[i]) :
               /\ Requested(confs[i], hist[i][k]) # {}
               /\ WellTyped(confs[i], hist[i][k]) = {}

-----------------------------------------------------------------------------
(* C7 *)

\* C7: the keys of the change record built for the latest notification are
\* requested targets that the notification carries, and each key maps to the
\* variant of that name with the value the notification carries.
C7_RecordWithinTargets ==
    \A i \in Listeners :
        cur[i].seq > 0 =>
            LET n == hist[i][cur[i].seq]
                changes == cur[i].changes
            IN  /\ DOMAIN changes \subseteq Requested(confs[i], n)
                /\ \A k \in DOMAIN changes :
                       changes[k].variant = k /\ changes[k].val = n[k].v

\* a record that leaves out a changed property that was not requested
C7_Witness ==
    \E i \in Listeners :
        /\ cur[i].seq > 0
        /\ DOMAIN cur[i].changes # {}
        /\ DOMAIN hist[i][cur[i].seq] \ Range(confs[i].targets) # {}

-----------------------------------------------------------------------------
(* C8 *)

\* the calls of listener i that have returned Ok
Succeeded(i) ==
    {calls[i][x] : x \in {y \in DOMAIN calls[i] :
                              calls[i][y] < Len(hist[i]) \/ pc[i] = "recv"}}

\* name, separator, value for each entry in some order, joined by the delimiter
Bodies(changes) ==
    {Join([x \in DOMAIN order |->
              <<order[x]>> \o fmt.separator \o Display(changes[order[x]]).s],
          fmt.delimiter) : order \in IterOrders(changes)}

\* C8: every write call that succeeded has put exactly one newline-terminated
\* line into the sink: the timestamp and a space (only when timestamps are
\* enabled), the device path, a space, the entries as name, separator, value
\* joined by the delimiter, and the newline; {TimeToFull: 54321} with the
\* default separator and delimiter and no timestamp gives
\* "<path> TimeToFull=15:05:21\n".
C8_LineFormat ==
    \A i \in Listeners :
        /\ \A k \in 1..Len(hist[i]) :
               Cardinality({a \in DOMAIN sink :
                   sink[a].who = i /\ sink[a].seq = k /\ "\n" \in Range(sink[a].text)})
                   = (IF k \in Succeeded(i) THEN 1 ELSE 0)
        /\ \A k \in Succeeded(i) :
               LET line == LineText(i, k)
                   changes == collect_changes(confs[i], hist[i][k])
                   \* "YYYY-MM-DDTHH:MM:SS.mmmZ " has 25 characters
                   stamp == IF fmt.timestamp THEN 25 ELSE 0
               IN  /\ Len(line) > stamp
                   /\ fmt.timestamp => line[stamp] = " " /\ line[stamp - 1] = "Z"
                   /\ \E body \in Bodies(changes) :
                          SubSeq(line, stamp + 1, Len(line))
                              = confs[i].path \o <<" ">> \o body \o Newline
                   /\ (/\ ~fmt.timestamp
                       /\ fmt.separator = <<"=">> /\ fmt.delimiter = <<" ">>
                       /\ DOMAIN changes = {"TimeToFull"}
                       /\ changes["TimeToFull"].val = 54321)
                      => line = confs[i].path \o
                                <<" ", "TimeToFull", "=", "1", "5", ":", "0", "5",
                                  ":", "2", "1", "\n">>

\* the example of the claim has been written
C8_Witness ==
    \E i \in Listeners : \E k \in Succeeded(i) :
        /\ ~fmt.timestamp /\ fmt.separator = <<"=">>
        /\ DOMAIN collect_changes(confs[i], hist[i][k]) = {"TimeToFull"}
        /\ hist[i][k]["TimeToFull"].v = 54321
        /\ LineComplete(i, k)

-----------------------------------------------------------------------------
(* C9 *)

\* C9: when the device arguments hold a configuration error, no listener is
\* ever created, subscribing or listening, and nothing is written: main ends
\* at the first from_varargs.
C9_NoPartialStartup ==
    ConfigError(args) =>
        /\ Listeners = {} /\ confs = <<>>
        /\ sink = <<>>
        /\ mainpc \in {"parse", "exit"}

\* main has ended on a configuration error in the second device's arguments
C9_Witness ==
    /\ ConfigError(args) /\ ~ConfigError(SubSeq(args, 1, 2))
    /\ mainpc = "exit" /\ exitcode = "1" /\ stderr # <<>>

-----------------------------------------------------------------------------
(* C10 *)

\* C10: a DeviceConfig that new returns has at least one target, all of them
\* variant names, and the path given; new fails for the empty target string
\* and for a target string with a comma-separated token that is no variant
\* name.
C10_NewValidates ==
    fop = "new" =>
        /\ fout.ok =>
               /\ Len(fout.conf.targets) >= 1
               /\ \A x \in DOMAIN fout.conf.targets : fout.conf.targets[x] \in VariantNames
               /\ fout.conf.path = fin.path
        /\ fin.targets = <<>> => ~fout.ok
        /\ HasBadToken(fin.targets) => ~fout.ok

\* new has returned a config with two targets
C10_Witness ==
    /\ fop = "new" /\ fout.ok
    /\ Len(fout.conf.targets) = 2

-----------------------------------------------------------------------------
(* C11 *)

\* the pairs of an even-length argument list
Pairs(a) == 1..(Len(a) \div 2)

\* DeviceConfig::new on pair i of the arguments
PairResult(a, i) == DeviceConfig_new(a[2 * i - 1], a[2 * i])

(* C11: from_varargs fails for every odd-length argument list, whatever it
   holds.  For an even length it succeeds exactly when DeviceConfig::new
   succeeds on every consecutive (path, targets) pair, and then returns one
   config per pair in argument order; otherwise it returns the error of the
   first failing pair and no configs. *)
C11_VarargsPairs ==
    fop = "from_varargs" =>
        LET a == fin.args
        IN  /\ Len(a) % 2 = 1 => ~fout.ok /\ "confs" \notin DOMAIN fout
            /\ Len(a) % 2 = 0 =>
                /\ fout.ok <=> \A i \in Pairs(a) : PairResult(a, i).ok
                /\ fout.ok =>
                        /\ Len(fout.confs) = Len(a) \div 2
                        /\ \A i \in Pairs(a) : fout.confs[i] = PairResult(a, i).conf
                /\ ~fout.ok =>
                        /\ "confs" \notin DOMAIN fout
                        /\ \E i \in Pairs(a) :
                              /\ ~PairResult(a, i).ok
                              /\ \A k \in 1..(i - 1) : PairResult(a, k).ok
                              /\ fout.err = PairResult(a, i).err

\* two pairs fail for different reasons and the first one's error is returned
C11_Witness ==
    /\ fop = "from_varargs"
    /\ Len(fin.args) = 4
    /\ ~PairResult(fin.args, 1).ok
    /\ ~PairResult(fin.args, 2).ok
    /\ PairResult(fin.args, 1).err # PairResult(fin.args, 2).err
    /\ fout.err = PairResult(fin.args, 1).err

-----------------------------------------------------------------------------
(* C12 *)

(* C12: from_key_value succeeds, returning the variant that carries the given
   value, exactly when the name is recognized and the value has that variant's
   payload type; for a recognized name with a wrong-typed value it fails with
   a TypeMismatch error, and for an unrecognized name with a distinct
   UnknownProperty error. *)
C12_ParseErrors ==
    fop = "from_key_value" =>
        LET recognized == fin.k \in VariantNames
            typed      == recognized /\ fin.v.t = PayloadType(fin.k)
        IN  /\ fout.ok <=> typed
            /\ fout.ok => /\ fout.p.variant = fin.k
                          /\ fout.p.val = fin.v.v
                          /\ fout.p.hi = fin.v.hi
            /\ recognized /\ ~typed => fout.err = "TypeMismatch"
            /\ ~recognized => fout.err = "UnknownProperty"

-----------------------------------------------------------------------------
(* C13 *)

(* C13: rendering a Property fails fatally only for a State whose code is
   outside 0..6; every other value, every UpdateTime of the u64 range and
   every TimeToEmpty or TimeToFull of the i64 range included, is rendered to
   a string without failing. *)
C13_RenderTotal ==
    fop = "fmt" =>
        (fout.panic <=> fin.p.variant = "State" /\ fin.p.val \notin 0..6)

-----------------------------------------------------------------------------
(* C14 *)

\* the number a string of decimal digits writes, -1 when it is no such string
RECURSIVE DecValue(_)
DecValue(str) ==
    IF str = <<>> THEN 0
    ELSE LET last == str[Len(str)]
             front == DecValue(SubSeq(str, 1, Len(str) - 1))
         IN  IF front < 0 \/ last \notin Range(DigitChars) THEN -1
             ELSE 10 * front + (CHOOSE d \in 0..9 : DigitChars[d + 1] = last)

\* a number written with at least two digits and no more zeros than that
TwoDigits(str, n) ==
    /\ Len(str) >= 2
    /\ Len(str) > 2 => str[1] # "0"
    /\ DecValue(str) = n

(* C14: secs_to_hhmmss returns "00:00:00" for every s <= 0; for s > 0 it
   returns hours = s div 3600, minutes = (s mod 3600) div 60 and
   seconds = s mod 60, each zero-padded to at least two digits and joined by
   colons (54321 gives "15:05:21"): the successive reductions of the code
   agree with this reference. *)
C14_HhMmSs ==
    fop = "secs_to_hhmmss" =>
        IF fin.s <= 0
        THEN fout = <<"0", "0", ":", "0", "0", ":", "0", "0">>
        ELSE LET colons == {i \in 1..Len(fout) : fout[i] = ":"}
             IN  /\ Cardinality(colons) = 2
                 /\ LET c1 == CHOOSE i \in colons : \A j \in colons : i <= j
                        c2 == CHOOSE i \in colons : \A j \in colons : i >= j
                    IN  /\ TwoDigits(SubSeq(fout, 1, c1 - 1), fin.s \div 3600)
                        /\ TwoDigits(SubSeq(fout, c1 + 1, c2 - 1),
                                     (fin.s % 3600) \div 60)
                        /\ TwoDigits(SubSeq(fout, c2 + 1, Len(fout)), fin.s % 60)

\* the documented example, which needs both reductions
C14_Witness ==
    /\ fop = "secs_to_hhmmss"
    /\ fin.s = 54321
    /\ fout = <<"1", "5", ":", "0", "5", ":", "2", "1">>

-----------------------------------------------------------------------------
(* C15 *)

\* the requested properties a notification carries with another type's value
Mistyped(conf, n) == Requested(conf, n) \ WellTyped(conf, n)

\* listener i takes a notification in this step
Takes(i) == Len(hist'[i]) = Len(hist[i]) + 1

\* the notification listener i takes in this step
Taken(i) == hist'[i][Len(hist'[i])]

\* something is reported in this step: a diagnostic, or an error of listener i
Surfaces(i) == stderr' # stderr \/ result'[i] # result[i]

(* C15: when a notification carries a requested property whose value has the
   wrong payload type, the listener surfaces an error for that occurrence;
   a requested property that is merely absent is skipped silently, so the
   two are told apart. *)
C15_Step ==
    \A i \in Listeners \cap DOMAIN hist' :
        Takes(i) => (Surfaces(i) <=> Mistyped(confs[i], Taken(i)) # {})

\* C15: every step that takes a notification surfaces an error exactly when
\* a requested property of it is wrong-typed
C15_MismatchSurfaced == [][C15_Step]_vars

-----------------------------------------------------------------------------
(* C16 *)

(* C16: a notification that carries a wrong-typed value for a requested
   property never terminates the listener: the listener stays Listening with
   no error, the record it builds holds the notification's correctly typed
   requested properties, write is called for them, and the program goes on
   running, so later notifications are processed. *)
C16_Step ==
    \A i \in Listeners \cap DOMAIN hist' :
        Takes(i) /\ Mistyped(confs[i], Taken(i)) # {} =>
            /\ lst'[i] = "Listening"
            /\ result'[i] = "None"
            /\ exitcode' = "running"
            /\ DOMAIN cur'[i].changes = WellTyped(confs[i], Taken(i))
            /\ WellTyped(confs[i], Taken(i)) # {} =>
                    /\ calls'[i] = Append(calls[i], Len(hist'[i]))
                    /\ pc'[i] = "lock"

\* C16: every step that takes such a notification leaves the listener running
C16_WrongTypeTolerated == [][C16_Step]_vars

\* a listener has written the line of a notification that had a wrong-typed
\* and a well-typed requested property, and then the line of a later one
C16_Witness ==
    \E i \in Listeners :
        \E k \in 1..Len(hist[i]) :
            /\ Mistyped(confs[i], hist[i][k]) # {}
            /\ WellTyped(confs[i], hist[i][k]) # {}
            /\ LineComplete(i, k)
            /\ \E k2 \in (k + 1)..Len(hist[i]) : LineComplete(i, k2)
            /\ lst[i] = "Listening"

-----------------------------------------------------------------------------
(* C17 *)

(* C17: listen_all starts exactly one listener per DeviceConfig, in the order
   of the configs, and returns only after every one of them has terminated:
   it has not returned while a listener is Subscribing or Listening, so the
   termination of one listener does not make it return early. *)
C17_ReturnsAfterAll ==
    /\ mainpc \in {"join", "done"} =>
            /\ Listeners = 1..Len(confs)
            /\ 2 * Len(confs) = Len(args)
            /\ \A i \in Listeners : confs[i].path = args[2 * i - 1]
    /\ mainpc = "done" => \A i \in Listeners : lst[i] = "Terminated"

\* listen_all has returned, and one listener went on receiving after the
\* other had terminated with a stream error
C17_Witness ==
    /\ mainpc = "done"
    /\ \E i \in Listeners, j \in Listeners :
          /\ i # j
          /\ result[i] = "StreamError"
          /\ Len(hist[j]) > seen[i][j]

-----------------------------------------------------------------------------
(* C18 *)

\* listener j is subscribing or listening in a running program
Live(j) == Running /\ lst[j] \in {"Subscribing", "Listening"}

\* the listeners this step stops
Stopped == {j \in Listeners \cap DOMAIN lst' : Live(j) /\ ~Live(j)'}

(* C18: a fatal failure raised while one device's notification is handled,
   the formatting failure for a requested State code outside 0..6 and the end
   of that device's stream included, ends only that device's listener: no
   step stops the listener of another device along with it. *)
C18_Step == Cardinality(Stopped) <= 1

\* C18: no step stops more than one listener
C18_FatalEndsOnlyItself == [][C18_Step]_vars

-----------------------------------------------------------------------------
(* C19 *)

(* C19: the sink lock taken by LineWriter::write is released on every return
   path, the failing one included: the lock is only ever held by a listener
   that is inside write, the step in which a write fails frees it, and a
   listener that has terminated with an I/O error does not hold it, so
   another listener that calls write can acquire it. *)
C19_Inv ==
    /\ lock # 0 =>
            /\ lock \in Listeners
            /\ lst[lock] = "Listening"
            /\ Running => pc[lock] = "writing"
    /\ \A i \in Listeners : lst[i] = "Terminated" => lock # i

C19_Step ==
    \A i \in Listeners \cap DOMAIN rejected' :
        rejected'[i] > rejected[i] => lock = i /\ lock' = 0

\* C19: the lock is held only inside write, and a failing write frees it
C19_LockReleased == []C19_Inv /\ [][C19_Step]_vars

\* the first line in the sink was begun by a listener whose write then
\* failed, and the last one was completed by the other listener
C19_Witness ==
    \E i \in Listeners, j \in Listeners :
        /\ i # j
        /\ result[i] = "IoError"
        /\ sink # <<>>
        /\ sink[1].who = i
        /\ ~LineComplete(i, sink[1].seq)
        /\ sink[Len(sink)].who = j
        /\ sink[Len(sink)].text = Newline

-----------------------------------------------------------------------------
(* C20 *)

\* listener i has a non-empty change record whose line is not yet written
Pending(i) ==
    i \in Listeners /\ lst[i] = "Listening" /\ pc[i] \in {"lock", "writing"}

\* the line of listener i's latest record is in the sink
LineWritten(i) ==
    i \in Listeners /\ pc[i] = "recv" /\ LineComplete(i, cur[i].seq)

\* listener i has terminated with an error: listen returned Err, or the
\* listener's own write raised the fatal formatting failure
Failed(i) ==
    /\ i \in Listeners
    /\ \/ lst[i] = "Terminated" /\ result[i] # "None"
       \/ ~Running /\ lock = i /\ pc[i] = "lock"

(* C20: under fair scheduling of the listeners, every notification a live
   listener receives that yields a non-empty change record eventually leads
   to its line being appended to the sink or to that listener terminating
   with an error; no listener is starved by the writes of other devices. *)
C20_EventuallyWritten ==
    \A i \in Devices : Pending(i) ~> (LineWritten(i) \/ Failed(i))

=============================================================================
